---- MODULE Spec2Model ----
(***************************************************************************)
(* LLM Utility Toolkit: the FastAPI service of app/main.py, its four task  *)
(* functions and the provider adapter of app/llm.py, the response schemas  *)
(* of app/schemas.py and the configuration module app/config.py.           *)
(*                                                                         *)
(* Strings are sequences.  A text whose characters matter (request text,   *)
(* completion) is a sequence of one-character strings, so Len is Python's  *)
(* len(); messages and prompts are sequences of pieces joined by \o.       *)
(***************************************************************************)
EXTENDS Integers, Sequences, FiniteSets, TLC

(***************************************************************************)
(* Bounds.                                                                 *)
(***************************************************************************)
\* Number of request slots (handler coroutines that can be in flight).
NumReq == 2
\* Longest request text and longest completion text, in characters.
MaxLen == 3

Requests == 1..NumReq

RECURSIVE StringsUpTo(_, _)
\* All sequences over alphabet A of length at most n.
StringsUpTo(A, n) ==
    IF n = 0 THEN {<<>>}
    ELSE LET shorter == StringsUpTo(A, n - 1)
         IN  shorter \cup {Append(s, c) : s \in {t \in shorter : Len(t) = n - 1}, c \in A}

(***************************************************************************)
(* json.loads, as app/llm.py calls it on the completion text: the standard *)
(* decoder (decode, raw_decode, scan_once, JSONObject, JSONArray,          *)
(* scanstring) over the characters { } [ ] " : , 1 and blank.  Any other   *)
(* character ("x") starts no JSON token.  Positions are 0-based as in      *)
(* JSONDecodeError.pos.                                                    *)
(***************************************************************************)
JNum(n) == [t |-> "int", v |-> n]
JStr(s) == [t |-> "str", v |-> s]
JArr(vs) == [t |-> "list", v |-> vs]
JObj(pairs) == [t |-> "dict", v |-> pairs]
\* Python's {} literal.
EmptyDict == JObj(<<>>)

POk(v, e) == [ok |-> TRUE, val |-> v, end |-> e, msg |-> "", pos |-> 0]
PErr(m, p) == [ok |-> FALSE, val |-> EmptyDict, end |-> 0, msg |-> m, pos |-> p]
\* StopIteration(idx) out of scan_once.
PStop(p) == PErr("StopIteration", p)

\* s[i:i+1]
At(s, i) == IF i >= 0 /\ i < Len(s) THEN s[i + 1] ELSE ""

RECURSIVE SkipWs(_, _)
\* WHITESPACE.match(s, i).end()
SkipWs(s, i) == IF At(s, i) = " " THEN SkipWs(s, i + 1) ELSE i

RECURSIVE DigitsEnd(_, _)
DigitsEnd(s, i) == IF At(s, i) = "1" THEN DigitsEnd(s, i + 1) ELSE i

RECURSIVE IntOf(_, _, _)
\* int() of the digits s[i:e]
IntOf(s, i, e) == IF i >= e THEN 0 ELSE 10 * IntOf(s, i, e - 1) + 1

RECURSIVE QuoteAt(_, _)
\* index of the next double quote at or after i, or -1
QuoteAt(s, i) ==
    IF i >= Len(s) THEN -1
    ELSE IF At(s, i) = "\"" THEN i ELSE QuoteAt(s, i + 1)

\* scanstring(s, end): end is the index after the opening quote
scanstring(s, end) ==
    LET q == QuoteAt(s, end)
    IN  IF q = -1 THEN PErr("Unterminated string starting at", end - 1)
        ELSE POk(SubSeq(s, end + 1, q), q + 1)

RECURSIVE DictSet(_, _, _)
\* dict(pairs): a later pair with the same key replaces the value in place
DictSet(pairs, k, v) ==
    IF pairs = <<>> THEN << <<k, v>> >>
    ELSE IF Head(pairs)[1] = k THEN << <<k, v>> >> \o Tail(pairs)
    ELSE << Head(pairs) >> \o DictSet(Tail(pairs), k, v)

RECURSIVE scan_once(_, _)
RECURSIVE ArrayLoop(_, _, _)
RECURSIVE ObjectLoop(_, _, _)

\* JSONArray's while loop, end at the start of the next value
ArrayLoop(s, end, values) ==
    LET r == scan_once(s, end)
    IN  IF ~r.ok
        THEN IF r.msg = "StopIteration" THEN PErr("Expecting value", r.pos) ELSE r
        ELSE LET e1 == SkipWs(s, r.end)
                 nextchar == At(s, e1)
                 vs == Append(values, r.val)
             IN  IF nextchar = "]" THEN POk(JArr(vs), e1 + 1)
                 ELSE IF nextchar # "," THEN PErr("Expecting ',' delimiter", e1)
                 ELSE ArrayLoop(s, SkipWs(s, e1 + 1), vs)

\* JSONArray((s, end)): end is the index after the opening bracket
JSONArray(s, end) ==
    LET e1 == SkipWs(s, end)
    IN  IF At(s, e1) = "]" THEN POk(JArr(<<>>), e1 + 1)
        ELSE ArrayLoop(s, e1, <<>>)

\* JSONObject's while loop, end at the index after a key's opening quote
ObjectLoop(s, end, pairs) ==
    LET k == scanstring(s, end)
    IN  IF ~k.ok THEN k
        ELSE LET e1 == IF At(s, k.end) # ":" THEN SkipWs(s, k.end) ELSE k.end
             IN  IF At(s, e1) # ":" THEN PErr("Expecting ':' delimiter", e1)
                 ELSE LET r == scan_once(s, SkipWs(s, e1 + 1))
                      IN  IF ~r.ok
                          THEN IF r.msg = "StopIteration"
                               THEN PErr("Expecting value", r.pos) ELSE r
                          ELSE LET e2 == SkipWs(s, r.end)
                                   nextchar == At(s, e2)
                                   ps == DictSet(pairs, k.val, r.val)
                               IN  IF nextchar = "}" THEN POk(JObj(ps), e2 + 1)
                                   ELSE IF nextchar # ","
                                   THEN PErr("Expecting ',' delimiter", e2)
                                   ELSE LET e3 == SkipWs(s, e2 + 1)
                                        IN  IF At(s, e3) # "\""
                                            THEN PErr("Expecting property name enclosed in double quotes", e3)
                                            ELSE ObjectLoop(s, e3 + 1, ps)

\* JSONObject((s, end)): end is the index after the opening brace
JSONObject(s, end) ==
    LET e1 == IF At(s, end) # "\"" THEN SkipWs(s, end) ELSE end
        nextchar == At(s, e1)
    IN  IF nextchar = "}" THEN POk(EmptyDict, e1 + 1)
        ELSE IF nextchar # "\""
        THEN PErr("Expecting property name enclosed in double quotes", e1)
        ELSE ObjectLoop(s, e1 + 1, <<>>)

scan_once(s, idx) ==
    LET nextchar == At(s, idx)
    IN  CASE nextchar = "\"" ->
               LET r == scanstring(s, idx + 1)
               IN  IF r.ok THEN POk(JStr(r.val), r.end) ELSE r
          [] nextchar = "{" -> JSONObject(s, idx + 1)
          [] nextchar = "[" -> JSONArray(s, idx + 1)
          [] nextchar = "1" ->
               LET e == DigitsEnd(s, idx) IN POk(JNum(IntOf(s, idx, e)), e)
          [] OTHER -> PStop(idx)

\* json.loads(s): JSONDecoder.decode, raising JSONDecodeError(msg, s, pos)
json_loads(s) ==
    LET r == scan_once(s, SkipWs(s, 0))
    IN  IF ~r.ok
        THEN IF r.msg = "StopIteration" THEN PErr("Expecting value", r.pos) ELSE r
        ELSE LET end == SkipWs(s, r.end)
             IN  IF end # Len(s) THEN PErr("Extra data", end) ELSE r

(***************************************************************************)
(* Strings, formatting and exceptions.                                     *)
(***************************************************************************)
\* Python's None where a string is expected (Optional[str]).
None == <<"<None>">>
\* os.getenv's None, and the empty environment slot.
Unset == "<unset>"

Digit(d) == <<"0", "1", "2", "3", "4", "5", "6", "7", "8", "9">>[d + 1]

RECURSIVE ToStr(_)
\* str(n) of a natural number, as an f-string or %d formats it
ToStr(n) == IF n < 10 THEN <<Digit(n)>> ELSE ToStr(n \div 10) \o <<Digit(n % 10)>>

Exc(class, str) == [class |-> class, str |-> str]
NoExc == Exc("", <<>>)

\* str(JSONDecodeError(msg, doc, pos)): "%s: line %d column %d (char %d)"; the
\* texts hold no newline, so lineno is 1 and colno is pos + 1
JSONDecodeErrorStr(msg, pos) ==
    <<msg, ": line 1 column ">> \o ToStr(pos + 1) \o <<" (char ">> \o ToStr(pos) \o <<")">>

JSONDecodeError(msg, pos) == Exc("JSONDecodeError", JSONDecodeErrorStr(msg, pos))

\* What a coroutine step or a call ends with.
Return(v) == [op |-> "return", value |-> v]
Raise(e) == [op |-> "raise", exc |-> e]
Await == [op |-> "await"]

VARIABLES
    env,         \* the process environment: OPENAI_API_KEY, OPENAI_MODEL
    providerUp,  \* whether the provider is reachable
    proc,        \* "start", "imported", "serving" or "crashed"
    fatal,       \* class of the exception that ended startup, "" if none
    client,      \* app.llm.client: the api key it holds, Unset before construction
    loopHolder,  \* the request whose coroutine occupies the event loop thread
                 \* between steps, 0 when the loop is free to dispatch
    pc,          \* per request slot: "idle", "waiting" (suspended on the call), "done"
    req,         \* per slot: the request being handled
    call,        \* per slot: the provider call submitted for it
    ncalls,      \* per slot: provider calls made for the current request
    outcome,     \* per slot: what the provider call ended with
    resp,        \* per slot: the HTTP response
    behind       \* per slot: the requests that were suspended when this one was
                 \* accepted and have stayed suspended since

vars == <<env, providerUp, proc, fatal, client, loopHolder,
          pc, req, call, ncalls, outcome, resp, behind>>

(***************************************************************************)
(* app/config.py                                                           *)
(***************************************************************************)
os_getenv(name, default) == IF env[name] = Unset THEN default ELSE env[name]

\* config.OPENAI_MODEL, the configured default model
OPENAI_MODEL == os_getenv("OPENAI_MODEL", "gpt-4o-mini")

\* The module's validation of the credential: if not OPENAI_API_KEY: raise.
\* It runs when app.config is imported; no module that app.main imports does
\* so, and no step of the process below runs it.
config_validate(api_key) ==
    IF api_key \in {Unset, ""}
    THEN Raise(Exc("ValueError", <<"OPENAI_API_KEY environment variable is not set">>))
    ELSE Return(api_key)

(***************************************************************************)
(* app/llm.py: the client and the adapter                                  *)
(***************************************************************************)
\* OpenAI(api_key=...): the constructor refuses a missing key (None), and
\* only a missing one
OpenAI(api_key) ==
    IF api_key = Unset THEN Raise(Exc("OpenAIError", <<"The api_key client option must be set">>))
    ELSE Return(api_key)

\* A variant that builds the client on first use instead of at import.
llm_module_client_lazy(api_key) == Return(Unset)

\* client = OpenAI(api_key=os.getenv("OPENAI_API_KEY")), run when app.llm is imported
llm_module_client(api_key) == OpenAI(api_key)

\* The model parameter's default in every task function and in ask_llm.
DefaultModel == "gpt-4o-mini"

\* The request ask_llm hands to client.chat.completions.create
ask_llm(prompt, model) ==
    [model |-> model,
     messages |-> << [role |-> "user", content |-> prompt] >>,
     temperature |-> "0.7"]

NoCall == [model |-> "", messages |-> <<>>, temperature |-> ""]

\* A variant that runs the blocking call on the event loop thread, as the
\* top-level llm.py does.
LoopHolderBlocking(r) == r

\* Who occupies the event loop while the call is out: nobody, the call runs in
\* the default executor and the coroutine awaits its future
LoopHolderDuringCall(r) == 0

OkOutcome(text) == [ok |-> TRUE, text |-> text, exc |-> NoExc]
FailOutcome(e) == [ok |-> FALSE, text |-> <<>>, exc |-> e]
NoOutcome == [ok |-> FALSE, text |-> <<>>, exc |-> NoExc]

\* A variant that calls the provider again when the call fails.
ask_llm_retrying(o) == IF o.ok THEN Return(o.text) ELSE Await

\* ask_llm after the await: the first choice's content, or the call's exception
ask_llm_resume(o) == IF o.ok THEN Return(o.text) ELSE Raise(o.exc)

(***************************************************************************)
(* app/llm.py: the task functions.  Each is its prompt (the part before    *)
(* the await) and its resume (the part after it, given what ask_llm ended  *)
(* with).                                                                  *)
(***************************************************************************)
summarize_text_prompt(text, max_length) ==
    <<"Summarize the following text in approximately ">> \o ToStr(max_length)
      \o <<" words or less.\n    \nText:\n">> \o text
      \o <<"\n\nProvide only the summary, nothing else.">>

\* A variant that measures the input where it should measure the summary.
summarize_text_resume_swapped(text, a) ==
    IF a.op # "return" THEN a
    ELSE Return([summary |-> a.value,
                 original_length |-> Len(text),
                 summary_length |-> Len(text)])

summarize_text_resume(text, a) ==
    IF a.op # "return" THEN a
    ELSE Return([summary |-> a.value,
                 original_length |-> Len(text),
                 summary_length |-> Len(a.value)])

extract_json_prompt(text, schema_description) ==
    <<"Extract the following information from the text and return it as valid JSON.\n\nSchema requirements:\n">>
      \o schema_description \o <<"\n\nText:\n">> \o text
      \o <<"\n\nReturn ONLY valid JSON, no additional text.">>

\* The dict of extract_json's except branch.
ExtractFallback(str) ==
    [data |-> EmptyDict, success |-> FALSE, error |-> <<"Failed to parse JSON: ">> \o str]

\* A variant without the except branch: a parse failure propagates.
extract_json_parsed_unguarded(p) ==
    IF p.ok THEN Return([data |-> p.val, success |-> TRUE, error |-> None])
    ELSE Raise(JSONDecodeError(p.msg, p.pos))

\* extract_json from json.loads on: p is what json.loads(response) ended with
extract_json_parsed(p) ==
    IF p.ok THEN Return([data |-> p.val, success |-> TRUE, error |-> None])
    ELSE Return(ExtractFallback(JSONDecodeErrorStr(p.msg, p.pos)))

\* The try block holds both the await and json.loads: except json.JSONDecodeError
\* catches that class whichever of the two raised it
extract_json_resume(a) ==
    IF a.op = "raise"
    THEN IF a.exc.class = "JSONDecodeError" THEN Return(ExtractFallback(a.exc.str)) ELSE a
    ELSE IF a.op # "return" THEN a
    ELSE extract_json_parsed(json_loads(a.value))

answer_question_prompt(context, question) ==
    <<"Based on the following context, answer the question.\n\nContext:\n">> \o context
      \o <<"\n\nQuestion:\n">> \o question
      \o <<"\n\nProvide a clear and concise answer.">>

answer_question_resume(a) ==
    IF a.op # "return" THEN a
    ELSE Return([answer |-> a.value, confidence |-> <<"high">>])

generate_structured_data_prompt(description, data_type) ==
    <<"Generate a realistic example of a ">> \o data_type
      \o <<" with the following characteristics:\n">> \o description
      \o <<"\n\nReturn as valid JSON with appropriate fields for a ">> \o data_type
      \o <<". Include all relevant fields.\nReturn ONLY valid JSON, no additional text.">>

GenerateFallback(data_type, str) ==
    [data |-> EmptyDict, schema_used |-> data_type,
     error |-> <<"Failed to parse JSON: ">> \o str]

generate_structured_data_parsed(data_type, p) ==
    IF p.ok THEN Return([data |-> p.val, schema_used |-> data_type])
    ELSE Return(GenerateFallback(data_type, JSONDecodeErrorStr(p.msg, p.pos)))

generate_structured_data_resume(data_type, a) ==
    IF a.op = "raise"
    THEN IF a.exc.class = "JSONDecodeError"
         THEN Return(GenerateFallback(data_type, a.exc.str)) ELSE a
    ELSE IF a.op # "return" THEN a
    ELSE generate_structured_data_parsed(data_type, json_loads(a.value))

(***************************************************************************)
(* app/schemas.py: the response models, built inside the endpoint's try    *)
(* from what the task function ended with (the returned dict's keys as     *)
(* keyword arguments; an exception of the task function passes through).   *)
(* A field typed dict[str, Any] accepts a dict only; a key the model does  *)
(* not declare is dropped.                                                 *)
(***************************************************************************)
ValidationError(model) == Exc("ValidationError", <<"1 validation error for ", model>>)

SummarizationOutput(result) ==
    IF result.op = "raise" THEN result
    ELSE Return([summary |-> result.value.summary,
                 original_length |-> result.value.original_length,
                 summary_length |-> result.value.summary_length])

JSONExtractionOutput(result) ==
    IF result.op = "raise" THEN result
    ELSE IF result.value.data.t # "dict" THEN Raise(ValidationError("JSONExtractionOutput"))
    ELSE Return([data |-> result.value.data,
                 success |-> result.value.success,
                 error |-> IF "error" \in DOMAIN result.value
                           THEN result.value.error ELSE None])

QAOutput(result) ==
    IF result.op = "raise" THEN result
    ELSE Return([answer |-> result.value.answer,
                 confidence |-> IF "confidence" \in DOMAIN result.value
                                THEN result.value.confidence ELSE None])

StructuredDataOutput(result) ==
    IF result.op = "raise" THEN result
    ELSE IF result.value.data.t # "dict" THEN Raise(ValidationError("StructuredDataOutput"))
    ELSE Return([data |-> result.value.data, schema_used |-> result.value.schema_used])

(***************************************************************************)
(* app/main.py: the endpoints                                              *)
(***************************************************************************)
HTTP200(body) == [status |-> 200, body |-> body]
\* raise HTTPException(status_code=500, detail=f"<operation>: {str(e)}")
HTTP500(operation, e) == [status |-> 500, body |-> [detail |-> <<operation>> \o e.str]]
NoResp == [status |-> 0, body |-> [detail |-> <<>>]]

\* The endpoint's try/except around the task function and the response model:
\* except Exception turns whatever either raised into the 500
Responded(m, operation) ==
    IF m.op = "raise" THEN HTTP500(operation, m.exc) ELSE HTTP200(m.value)

\* A variant that reports the provider's reachability.
health_check_probing == [status |-> IF providerUp THEN "healthy" ELSE "unhealthy"]

health_check == [status |-> "healthy"]

summarize(rq, a) ==
    Responded(SummarizationOutput(summarize_text_resume(rq.text, a)),
              "Error summarizing text: ")

extract(rq, a) ==
    Responded(JSONExtractionOutput(extract_json_resume(a)), "Error extracting JSON: ")

answer(rq, a) ==
    Responded(QAOutput(answer_question_resume(a)), "Error answering question: ")

generate_data(rq, a) ==
    Responded(StructuredDataOutput(generate_structured_data_resume(rq.data_type, a)),
              "Error generating data: ")

TaskKinds == {"summarize", "extract-json", "answer", "generate-data"}
JsonKinds == {"extract-json", "generate-data"}

\* The operation name each endpoint puts in its 500 detail.
OperationName(kind) ==
    CASE kind = "summarize" -> "Error summarizing text: "
      [] kind = "extract-json" -> "Error extracting JSON: "
      [] kind = "answer" -> "Error answering question: "
      [] kind = "generate-data" -> "Error generating data: "

\* The prompt the endpoint's task function builds for request rq.
PromptOf(rq) ==
    CASE rq.kind = "summarize" -> summarize_text_prompt(rq.text, rq.max_length)
      [] rq.kind = "extract-json" -> extract_json_prompt(rq.text, rq.schema_description)
      [] rq.kind = "answer" -> answer_question_prompt(rq.context, rq.question)
      [] rq.kind = "generate-data" -> generate_structured_data_prompt(rq.description, rq.data_type)

\* The endpoint of request rq, resumed with what ask_llm ended with.
Endpoint(rq, a) ==
    CASE rq.kind = "summarize" -> summarize(rq, a)
      [] rq.kind = "extract-json" -> extract(rq, a)
      [] rq.kind = "answer" -> answer(rq, a)
      [] rq.kind = "generate-data" -> generate_data(rq, a)

(***************************************************************************)
(* Requests and provider outcomes the model draws from.                    *)
(***************************************************************************)
\* SummarizationInput.max_length when the request omits it.
DefaultMaxLength == 150

\* Characters of a completion to a JSON task: JSON's structural characters, a
\* digit, blank, and a character that starts no JSON token.
JsonAlphabet == {"{", "}", "[", "]", "\"", ",", "1", " ", "x"}
\* Characters of request texts and of free-text completions.
TextAlphabet == {"a", " "}

NoReq == [kind |-> "none"]
HealthReq == [kind |-> "health"]

SummarizeReqs(texts) ==
    {[kind |-> "summarize", text |-> t, max_length |-> m] : t \in texts, m \in {DefaultMaxLength, 1}}
ExtractReqs(texts) ==
    {[kind |-> "extract-json", text |-> t, schema_description |-> <<"name and age">>] : t \in texts}
AnswerReqs(texts) ==
    {[kind |-> "answer", context |-> t, question |-> <<"What is the capital of France?">>] : t \in texts}
GenerateReqs ==
    {[kind |-> "generate-data", description |-> <<"a", " ">>, data_type |-> <<d>>] :
        d \in {"product", "person"}}

\* Every request with texts up to MaxLen characters.
AllReqs ==
    SummarizeReqs(StringsUpTo({"a"}, MaxLen)) \cup ExtractReqs({<<"a">>})
      \cup AnswerReqs({<<"a">>}) \cup GenerateReqs

\* A request of each kind, for the runs with several requests in flight.
SampleReqs ==
    SummarizeReqs({<<"a", "a">>}) \cup ExtractReqs({<<"a">>})
      \cup AnswerReqs({<<"a">>}) \cup GenerateReqs

JsonCompletions == StringsUpTo(JsonAlphabet, MaxLen)
TextCompletions == StringsUpTo(TextAlphabet, MaxLen)

\* Every completion up to MaxLen characters for the kind of request.
AllCompletions(kind) == IF kind \in JsonKinds THEN JsonCompletions ELSE TextCompletions

\* An object, a number and a text that is no JSON.
SampleCompletions == {<<"{", "}">>, <<"1">>, <<"x">>}

\* What client.chat.completions.create raises.  A 2xx response whose JSON body
\* does not decode leaves the SDK as the json.JSONDecodeError of its own decoding.
ConnectionFailure == Exc("APIConnectionError", <<"Connection error.">>)
AuthFailure == Exc("AuthenticationError", <<"Error code: 401">>)
MalformedBody == JSONDecodeError("Expecting value", 0)

\* What a provider call can end with now, given the completions it may return.
ProviderOutcomes(completions) ==
    IF ~providerUp THEN {FailOutcome(ConnectionFailure)}
    ELSE IF client = "" THEN {FailOutcome(AuthFailure)}
    ELSE {OkOutcome(c) : c \in completions} \cup {FailOutcome(MalformedBody)}

(***************************************************************************)
(* The process: startup, then the event loop's steps.                      *)
(***************************************************************************)
Environments ==
    [OPENAI_API_KEY : {Unset, "", "sk-test"}, OPENAI_MODEL : {Unset, "gpt-4"}]

Init ==
    /\ env \in Environments
    /\ providerUp \in BOOLEAN
    /\ proc = "start"
    /\ fatal = ""
    /\ client = Unset
    /\ loopHolder = 0
    /\ pc = [r \in Requests |-> "idle"]
    /\ req = [r \in Requests |-> NoReq]
    /\ call = [r \in Requests |-> NoCall]
    /\ ncalls = [r \in Requests |-> 0]
    /\ outcome = [r \in Requests |-> NoOutcome]
    /\ resp = [r \in Requests |-> NoResp]
    /\ behind = [r \in Requests |-> {}]

slots == <<pc, req, call, ncalls, outcome, resp, behind>>

\* app.main's imports: app.schemas, then app.llm, whose module body builds the
\* client.  app.config is imported by neither.
ImportLlm ==
    /\ proc = "start"
    /\ LET c == llm_module_client(os_getenv("OPENAI_API_KEY", Unset))
       IN  IF c.op = "raise"
           THEN /\ proc' = "crashed"
                /\ fatal' = c.exc.class
                /\ UNCHANGED client
           ELSE /\ proc' = "imported"
                /\ client' = c.value
                /\ UNCHANGED fatal
    /\ UNCHANGED <<env, providerUp, loopHolder, slots>>

\* app = FastAPI(...), the middleware and routes, then uvicorn.run(app)
RunServer ==
    /\ proc = "imported"
    /\ proc' = "serving"
    /\ UNCHANGED <<env, providerUp, fatal, client, loopHolder, slots>>

\* The provider becomes unreachable, or reachable again.
ProviderFlap ==
    /\ providerUp' = ~providerUp
    /\ UNCHANGED <<env, proc, fatal, client, loopHolder, slots>>

Suspended == {q \in Requests : pc[q] = "waiting"}

\* GET /health: the handler has no await and answers in one step of the loop.
Health(r) ==
    /\ proc = "serving"
    /\ loopHolder = 0
    /\ pc[r] = "idle"
    /\ pc' = [pc EXCEPT ![r] = "done"]
    /\ req' = [req EXCEPT ![r] = HealthReq]
    /\ resp' = [resp EXCEPT ![r] = HTTP200(health_check)]
    /\ behind' = [behind EXCEPT ![r] = Suspended]
    /\ UNCHANGED <<env, providerUp, proc, fatal, client, loopHolder, call, ncalls, outcome>>

\* A POST to a task endpoint: the handler calls its task function without a
\* model, which builds the prompt and awaits ask_llm; ask_llm submits the call
\* and the coroutine is suspended.
Accept(r, reqs) ==
    /\ proc = "serving"
    /\ loopHolder = 0
    /\ pc[r] = "idle"
    /\ \E rq \in reqs :
         /\ req' = [req EXCEPT ![r] = rq]
         /\ call' = [call EXCEPT ![r] = ask_llm(PromptOf(rq), DefaultModel)]
    /\ ncalls' = [ncalls EXCEPT ![r] = 1]
    /\ pc' = [pc EXCEPT ![r] = "waiting"]
    /\ loopHolder' = LoopHolderDuringCall(r)
    /\ behind' = [behind EXCEPT ![r] = Suspended]
    /\ UNCHANGED <<env, providerUp, proc, fatal, client, outcome, resp>>

\* The provider call of r ends and the loop resumes r's coroutine, which runs
\* to its end without another await: ask_llm, the task function, the endpoint.
Complete(r, exhaustive) ==
    /\ pc[r] = "waiting"
    /\ loopHolder \in {0, r}
    /\ \E o \in ProviderOutcomes(IF exhaustive THEN AllCompletions(req[r].kind)
                                 ELSE SampleCompletions) :
         LET a == ask_llm_resume(o)
         IN  IF a.op = "await"
             THEN /\ ncalls' = [ncalls EXCEPT ![r] = @ + 1]
                  /\ loopHolder' = LoopHolderDuringCall(r)
                  /\ UNCHANGED <<pc, outcome, resp, behind>>
             ELSE /\ outcome' = [outcome EXCEPT ![r] = o]
                  /\ resp' = [resp EXCEPT ![r] = Endpoint(req[r], a)]
                  /\ pc' = [pc EXCEPT ![r] = "done"]
                  /\ loopHolder' = 0
                  /\ behind' = [q \in Requests |-> behind[q] \ {r}]
                  /\ UNCHANGED ncalls
    /\ UNCHANGED <<env, providerUp, proc, fatal, client, req, call>>

\* The response has been sent; the slot serves the next request.
Close(r) ==
    /\ pc[r] = "done"
    /\ pc' = [pc EXCEPT ![r] = "idle"]
    /\ req' = [req EXCEPT ![r] = NoReq]
    /\ call' = [call EXCEPT ![r] = NoCall]
    /\ ncalls' = [ncalls EXCEPT ![r] = 0]
    /\ outcome' = [outcome EXCEPT ![r] = NoOutcome]
    /\ resp' = [resp EXCEPT ![r] = NoResp]
    /\ behind' = [behind EXCEPT ![r] = {}]
    /\ UNCHANGED <<env, providerUp, proc, fatal, client, loopHolder>>

\* The service under load: any request slot at any time, a request of each
\* kind and a completion of each shape.
Next ==
    \/ ImportLlm
    \/ RunServer
    \/ ProviderFlap
    \/ \E r \in Requests : Health(r)
    \/ \E r \in Requests : Accept(r, SampleReqs)
    \/ \E r \in Requests : Complete(r, FALSE)
    \/ \E r \in Requests : Close(r)

Spec == Init /\ [][Next]_vars

\* One request at a time, over every request and every completion up to MaxLen.
Alone(r) == \A q \in Requests \ {r} : pc[q] = "idle"

SeqNext ==
    \/ ImportLlm
    \/ RunServer
    \/ ProviderFlap
    \/ Alone(1) /\ Health(1)
    \/ Alone(1) /\ Accept(1, AllReqs)
    \/ Alone(1) /\ Complete(1, TRUE)
    \/ Alone(1) /\ Close(1)

SpecSeq == Init /\ [][SeqNext]_vars

(***************************************************************************)
(* Properties.                                                             *)
(***************************************************************************)
Done(r, kinds) == pc[r] = "done" /\ req[r].kind \in kinds
\* Slot r holds a finished JSON request whose completion json.loads rejected.
Rejected(r, kinds) ==
    Done(r, kinds) /\ outcome[r].ok /\ ~json_loads(outcome[r].text).ok
\* Slot r holds a finished JSON request whose completion json.loads accepted.
Accepted(r, kinds) ==
    Done(r, kinds) /\ outcome[r].ok /\ json_loads(outcome[r].text).ok

ParseFailureText(p) == <<"Failed to parse JSON: ">> \o JSONDecodeErrorStr(p.msg, p.pos)

IsExtractFallback(response, p) ==
    /\ response.status = 200
    /\ response.body.data = EmptyDict
    /\ response.body.success = FALSE
    /\ response.body.error = ParseFailureText(p)

\* C1: every POST /extract-json whose completion is text that json.loads
\* rejects ends in a 200 response with data = {}, success = false and
\* error = "Failed to parse JSON: " followed by the parser's message; never 500.
C1_ExtractInvalidJsonIs200Fallback ==
    \A r \in Requests :
        Rejected(r, {"extract-json"})
            => IsExtractFallback(resp[r], json_loads(outcome[r].text))

C1_Witness ==
    \E r \in Requests :
        /\ Rejected(r, {"extract-json"})
        /\ Len(outcome[r].text) > 1
        /\ resp[r].status = 200
        /\ ~resp[r].body.success

ReportsParsed(kind, response, p) ==
    /\ response.status = 200
    /\ response.body.data = p.val
    /\ kind = "extract-json" => response.body.success = TRUE /\ response.body.error = None
    /\ kind = "generate-data" => "error" \notin DOMAIN response.body

\* C2: every POST /extract-json and POST /generate-data whose completion is
\* text json.loads accepts (an object, array, string or number) reports success
\* and returns the parsed value as data.
C2_ValidJsonIsReturnedAsData ==
    \A r \in Requests :
        Accepted(r, JsonKinds)
            => ReportsParsed(req[r].kind, resp[r], json_loads(outcome[r].text))

IsGenerateFallback(response, data_type, p) ==
    /\ response.status = 200
    /\ response.body.data = EmptyDict
    /\ response.body.schema_used = data_type
    /\ "error" \in DOMAIN response.body
    /\ response.body.error = ParseFailureText(p)

\* C3: every POST /generate-data whose completion is text that json.loads
\* rejects ends in a non-500 response with data = {}, schema_used = the
\* request's data_type and an error field "Failed to parse JSON: <message>".
C3_GenerateInvalidJsonCarriesError ==
    \A r \in Requests :
        Rejected(r, {"generate-data"})
            => IsGenerateFallback(resp[r], req[r].data_type, json_loads(outcome[r].text))

\* C4: on each of the four task endpoints a provider call that raises ends the
\* request in HTTP 500 whose detail is the endpoint's operation name followed
\* by the failure's message; never in a 200.
C4_ProviderFailureIs500 ==
    \A r \in Requests :
        (Done(r, TaskKinds) /\ ~outcome[r].ok)
            => resp[r] = HTTP500(OperationName(req[r].kind), outcome[r].exc)

\* C5: every POST /summarize that ends in 200 has summary_length = the
\* character count of its summary and original_length = the character count
\* of the submitted text, for any completion and any max_length.
C5_SummarizeLengths ==
    \A r \in Requests :
        (Done(r, {"summarize"}) /\ resp[r].status = 200)
            => /\ resp[r].body.summary_length = Len(resp[r].body.summary)
               /\ resp[r].body.original_length = Len(req[r].text)

C5_Witness ==
    \E r \in Requests :
        /\ Done(r, {"summarize"})
        /\ resp[r].status = 200
        /\ req[r].max_length # DefaultMaxLength
        /\ Len(req[r].text) > 0
        /\ Len(resp[r].body.summary) > 0
        /\ Len(req[r].text) # Len(resp[r].body.summary)

\* C6: in every state of the running service, whether or not the provider is
\* reachable and whatever task requests are in flight or failed, GET /health
\* can be served, returns {status: "healthy"} and makes no provider call.
C6_HealthAlwaysHealthy ==
    /\ \A r \in Requests :
           Done(r, {"health"})
               => /\ resp[r] = HTTP200([status |-> "healthy"])
                  /\ ncalls[r] = 0
                  /\ call[r] = NoCall
    /\ proc = "serving" => \A r \in Requests : pc[r] = "idle" => ENABLED Health(r)

C6_Witness ==
    \E r, q \in Requests :
        /\ Done(r, {"health"})
        /\ ~providerUp
        /\ pc[q] = "waiting"
        /\ q \in behind[r]

\* C7: when the caller omits the model, as every endpoint does, the provider
\* call uses the configured default model, the OPENAI_MODEL setting.
C7_CallUsesConfiguredModel ==
    \A r \in Requests :
        (pc[r] \in {"waiting", "done"} /\ req[r].kind \in TaskKinds)
            => call[r].model = OPENAI_MODEL

\* C8: with OPENAI_API_KEY absent from the environment, startup through
\* app.main fails with a configuration error before any request is accepted:
\* the process never serves, and no slot ever holds a request or a response.
C8_NoServiceWithoutCredential ==
    env["OPENAI_API_KEY"] = Unset
        => /\ proc \in {"start", "crashed"}
           /\ proc = "crashed" => fatal = "OpenAIError"
           /\ client = Unset
           /\ \A r \in Requests : pc[r] = "idle" /\ req[r] = NoReq /\ resp[r] = NoResp

C8_Witness == env["OPENAI_API_KEY"] = Unset /\ proc = "crashed" /\ fatal # ""

\* C9: every task function invocation makes exactly one provider call before
\* it returns or fails: no second call after a provider failure or a JSON
\* parse failure, and no result without a call.
C9_ExactlyOneProviderCall ==
    \A r \in Requests :
        /\ pc[r] = "waiting" => ncalls[r] = 1 /\ call[r] # NoCall
        /\ Done(r, TaskKinds) => ncalls[r] = 1 /\ call[r] # NoCall

C9_Witness ==
    \E r, q \in Requests :
        /\ Rejected(r, JsonKinds)
        /\ ncalls[r] = 1
        /\ Done(q, TaskKinds)
        /\ ~outcome[q].ok
        /\ ncalls[q] = 1

\* C10: while a request is suspended on its provider call the event loop is
\* free: every other slot can take a new task request or a health check, and
\* every other suspended request can be resumed and run to its end; and each
\* response is built from its own request and its own completion.
C10_SuspendedCallLeavesLoopFree ==
    /\ \A r \in Requests :
           pc[r] = "waiting"
               => /\ loopHolder = 0
                  /\ \A q \in Requests \ {r} :
                         /\ pc[q] = "idle"
                                => ENABLED Health(q) /\ ENABLED Accept(q, SampleReqs)
                         /\ pc[q] = "waiting" => ENABLED Complete(q, FALSE)
    /\ \A r \in Requests :
           Done(r, TaskKinds)
               => /\ call[r] = ask_llm(PromptOf(req[r]), DefaultModel)
                  /\ resp[r] = Endpoint(req[r], ask_llm_resume(outcome[r]))

C10_Witness ==
    \E r, q \in Requests :
        /\ pc[r] = "waiting"
        /\ Done(q, TaskKinds)
        /\ r \in behind[q]
        /\ req[q] # req[r]
        /\ resp[q].status = 200

====
